---- MODULE Spec2Model ----
(***************************************************************************)
(* The interactive pricing widget of script.js: a range slider selects a   *)
(* pageview tier, a button toggles yearly billing, and updatePricing       *)
(* writes the tier's label and the price into two text elements.           *)
(*                                                                         *)
(* DOM strings are modelled as strings: rangeInput.value is the decimal    *)
(* text of the slider position, the keys of PRICING_DATA are the property  *)
(* names "1".."5", and the price text is "$" followed by JavaScript's      *)
(* Number-to-String conversion of the computed price.  Numbers that may    *)
(* carry a fraction are held in hundredths (the discount 0.25 is 25).      *)
(***************************************************************************)
EXTENDS Integers, Sequences, FiniteSets, TLC

VARIABLES
    rangeValue,        \* rangeInput.value, a DOM string
    isYearlyBilling,   \* the module-level flag of script.js
    classList,         \* discountBtn.classList, a set of class names
    viewCount,         \* viewCount.textContent
    monthPrice,        \* monthPrice.textContent
    listeners,         \* event types that have a registered handler
    pricingData,       \* the PRICING_DATA object (const binding, mutable object)
    error,             \* what the last handler raised: "none" or an error name
    last,              \* history: the last event a handler was run for
    trace,             \* history: the first MaxTrace handled events, in order
    more,              \* history: TRUE once events beyond MaxTrace were handled
    runStart,          \* history: the state when the current run of toggles began
    runEven,           \* history: TRUE iff that run holds an even number of toggles
    overwrote          \* history: TRUE iff startup replaced a slider value other than its default

vars == <<rangeValue, isYearlyBilling, classList, viewCount, monthPrice,
          listeners, pricingData, error, last, trace, more, runStart, runEven,
          overwrote>>

\* ---------------------------------------------------------------- bounds
MaxTrace == 3          \* how many handled events the history keeps in order
MaxSlider == 6         \* highest position of a slider wired without the 1..5 limits
MaxDollars == 40       \* largest whole-dollar amount a price text is read back as

\* ------------------------------------------------- configuration (script.js)
YEARLY_DISCOUNT == 25  \* 0.25, in hundredths

DEFAULT_RANGE_VALUE == 3

\* JavaScript's String(n) for a natural number n: its decimal digits.
Digit(d) ==
    CASE d = 0 -> "0" [] d = 1 -> "1" [] d = 2 -> "2" [] d = 3 -> "3"
      [] d = 4 -> "4" [] d = 5 -> "5" [] d = 6 -> "6" [] d = 7 -> "7"
      [] d = 8 -> "8" [] d = 9 -> "9"

RECURSIVE NatToString(_)
NatToString(n) ==
    IF n < 10 THEN Digit(n) ELSE NatToString(n \div 10) \o Digit(n % 10)

\* JavaScript's Number-to-String for a non-negative number given in hundredths:
\* the integer digits, then "." and the fraction digits without trailing zeros,
\* and no "." at all when the number is whole.
NumberToString(h) ==
    LET whole == h \div 100
        frac  == h % 100
    IN  IF frac = 0 THEN NatToString(whole)
        ELSE IF frac % 10 = 0
             THEN NatToString(whole) \o "." \o Digit(frac \div 10)
             ELSE NatToString(whole) \o "." \o Digit(frac \div 10) \o Digit(frac % 10)

\* A table whose prices do not grow with the tier (tiers 4 and 5 swapped).
PRICING_DATA_Unordered ==
    ("1" :> [views |-> "10K",  price |-> 8])  @@
    ("2" :> [views |-> "50K",  price |-> 12]) @@
    ("3" :> [views |-> "100K", price |-> 16]) @@
    ("4" :> [views |-> "500K", price |-> 36]) @@
    ("5" :> [views |-> "1M",   price |-> 24])

\* A table with a price that is no multiple of four (tier 2 at 13).
PRICING_DATA_NotMultipleOfFour ==
    ("1" :> [views |-> "10K",  price |-> 8])  @@
    ("2" :> [views |-> "50K",  price |-> 13]) @@
    ("3" :> [views |-> "100K", price |-> 16]) @@
    ("4" :> [views |-> "500K", price |-> 24]) @@
    ("5" :> [views |-> "1M",   price |-> 36])

\* The object literal PRICING_DATA: property name -> { views, price }.
PRICING_DATA ==
    ("1" :> [views |-> "10K",  price |-> 8])  @@
    ("2" :> [views |-> "50K",  price |-> 12]) @@
    ("3" :> [views |-> "100K", price |-> 16]) @@
    ("4" :> [views |-> "500K", price |-> 24]) @@
    ("5" :> [views |-> "1M",   price |-> 36])

\* ------------------------------------------------------- the page (markup)
\* What index.html puts into the two text elements and the button's class
\* attribute before the script runs.
MarkupViewTexts == {"", "100K"}

MarkupPriceTexts == {"", "$16.00"}

MarkupClassList == {}

\* The positions a slider can report: min..max in steps of 1, as DOM strings.
SliderPositions(lo, hi) == {NatToString(n) : n \in lo..hi}

TierSlider == SliderPositions(1, 5)

WideSlider == SliderPositions(0, MaxSlider)

\* ------------------------------------------------------------ history
Snapshot(rv, yearly, classes, views, price) == <<rv, yearly, classes, views, price>>

Record(e) ==
    /\ last' = e
    /\ trace' = IF Len(trace) < MaxTrace THEN Append(trace, e) ELSE trace
    /\ more' = (more \/ Len(trace) >= MaxTrace)

\* ------------------------------------------------------- core business logic
\* updatePricing with an exception for an unknown tier instead of the silent skip.
updatePricing_Throws(rv, yearly) ==
    IF rv \in DOMAIN pricingData
    THEN LET pricingInfo == pricingData[rv]
             finalPrice == IF yearly
                           THEN pricingInfo.price * (100 - YEARLY_DISCOUNT)
                           ELSE pricingInfo.price * 100
         IN  /\ viewCount' = pricingInfo.views
             /\ monthPrice' = "$" \o NumberToString(finalPrice)
             /\ error' = "none"
    ELSE /\ UNCHANGED <<viewCount, monthPrice>>
         /\ error' = "InvalidTierError"

\* updatePricing multiplying by the discount instead of by (1 - discount).
updatePricing_DiscountAsFactor(rv, yearly) ==
    IF rv \in DOMAIN pricingData
    THEN LET pricingInfo == pricingData[rv]
             finalPrice == IF yearly
                           THEN pricingInfo.price * YEARLY_DISCOUNT
                           ELSE pricingInfo.price * 100
         IN  /\ viewCount' = pricingInfo.views
             /\ monthPrice' = "$" \o NumberToString(finalPrice)
             /\ error' = "none"
    ELSE /\ UNCHANGED <<viewCount, monthPrice>>
         /\ error' = "none"

\* updatePricing appending to the price text (+=) instead of replacing it.
updatePricing_AppendsPrice(rv, yearly) ==
    IF rv \in DOMAIN pricingData
    THEN LET pricingInfo == pricingData[rv]
             finalPrice == IF yearly
                           THEN pricingInfo.price * (100 - YEARLY_DISCOUNT)
                           ELSE pricingInfo.price * 100
         IN  /\ viewCount' = pricingInfo.views
             /\ monthPrice' = monthPrice \o "$" \o NumberToString(finalPrice)
             /\ error' = "none"
    ELSE /\ UNCHANGED <<viewCount, monthPrice>>
         /\ error' = "none"

\* updatePricing falling back to the default tier for an unknown slider value.
updatePricing_DefaultsUnknown(rv, yearly) ==
    LET key == IF rv \in DOMAIN pricingData THEN rv
               ELSE NatToString(DEFAULT_RANGE_VALUE)
        pricingInfo == pricingData[key]
        finalPrice == IF yearly
                      THEN pricingInfo.price * (100 - YEARLY_DISCOUNT)
                      ELSE pricingInfo.price * 100
    IN  /\ viewCount' = pricingInfo.views
        /\ monthPrice' = "$" \o NumberToString(finalPrice)
        /\ error' = "none"

\* updatePricing, run when rangeInput.value is rv and isYearlyBilling is yearly.
\* PRICING_DATA[rv] is undefined (falsy) exactly when rv is not a property.
updatePricing(rv, yearly) ==
    IF rv \in DOMAIN pricingData
    THEN LET pricingInfo == pricingData[rv]
             finalPrice == IF yearly
                           THEN pricingInfo.price * (100 - YEARLY_DISCOUNT)
                           ELSE pricingInfo.price * 100
         IN  /\ viewCount' = pricingInfo.views
             /\ monthPrice' = "$" \o NumberToString(finalPrice)
             /\ error' = "none"
    ELSE /\ UNCHANGED <<viewCount, monthPrice>>
         /\ error' = "none"

\* ------------------------------------------------------------ event handlers
\* handleRangeChange that also falls back to monthly billing.
handleRangeChange_ResetsBilling(rv) ==
    /\ updatePricing(rv, FALSE)
    /\ isYearlyBilling' = FALSE
    /\ classList' = classList \ {"active"}
    /\ UNCHANGED pricingData

handleRangeChange(rv) ==
    /\ updatePricing(rv, isYearlyBilling)
    /\ UNCHANGED <<isYearlyBilling, classList, pricingData>>

\* handleDiscountToggle without the closing updatePricing() call.
handleDiscountToggle_NoRender ==
    LET yearly == ~isYearlyBilling
    IN  /\ isYearlyBilling' = yearly
        /\ classList' = IF yearly THEN classList \cup {"active"}
                                  ELSE classList \ {"active"}
        /\ UNCHANGED <<viewCount, monthPrice, pricingData>>
        /\ error' = "none"

\* handleDiscountToggle whose else branch is missing: the class is only added.
handleDiscountToggle_OnlyAdds ==
    LET yearly == ~isYearlyBilling
    IN  /\ isYearlyBilling' = yearly
        /\ classList' = IF yearly THEN classList \cup {"active"} ELSE classList
        /\ updatePricing(rangeValue, yearly)
        /\ UNCHANGED pricingData

\* handleDiscountToggle that sets the flag instead of flipping it.
handleDiscountToggle_SetsYearly ==
    LET yearly == TRUE
    IN  /\ isYearlyBilling' = yearly
        /\ classList' = IF yearly THEN classList \cup {"active"}
                                  ELSE classList \ {"active"}
        /\ updatePricing(rangeValue, yearly)
        /\ UNCHANGED pricingData

handleDiscountToggle ==
    LET yearly == ~isYearlyBilling
    IN  /\ isYearlyBilling' = yearly
        /\ classList' = IF yearly THEN classList \cup {"active"}
                                  ELSE classList \ {"active"}
        /\ updatePricing(rangeValue, yearly)
        /\ UNCHANGED pricingData

\* ------------------------------------------------- initialization & startup
\* initializeComponent without the first updatePricing() call.
initializeComponent_NoFirstRender ==
    /\ rangeValue' = NatToString(DEFAULT_RANGE_VALUE)
    /\ UNCHANGED <<viewCount, monthPrice>>
    /\ error' = "none"
    /\ listeners' = listeners \cup {"input", "click"}
    /\ UNCHANGED <<isYearlyBilling, classList, pricingData>>

\* initializeComponent that registers the slider's handler only.
initializeComponent_NoClickListener ==
    /\ rangeValue' = NatToString(DEFAULT_RANGE_VALUE)
    /\ updatePricing(NatToString(DEFAULT_RANGE_VALUE), isYearlyBilling)
    /\ listeners' = listeners \cup {"input"}
    /\ UNCHANGED <<isYearlyBilling, classList, pricingData>>

\* initializeComponent rendering before it sets the slider to its default.
initializeComponent_RendersFirst ==
    /\ updatePricing(rangeValue, isYearlyBilling)
    /\ rangeValue' = NatToString(DEFAULT_RANGE_VALUE)
    /\ listeners' = listeners \cup {"input", "click"}
    /\ UNCHANGED <<isYearlyBilling, classList, pricingData>>

initializeComponent ==
    /\ rangeValue' = NatToString(DEFAULT_RANGE_VALUE)
    /\ updatePricing(NatToString(DEFAULT_RANGE_VALUE), isYearlyBilling)
    /\ listeners' = listeners \cup {"input", "click"}
    /\ UNCHANGED <<isYearlyBilling, classList, pricingData>>

\* ------------------------------------------------------------------ events
\* The script has been evaluated, the document is still loading: the slider
\* holds whatever position the page gave it, drawn from the set S.
InitOver(S) ==
    /\ rangeValue \in S
    /\ isYearlyBilling = FALSE
    /\ classList = MarkupClassList
    /\ viewCount \in MarkupViewTexts
    /\ monthPrice \in MarkupPriceTexts
    /\ listeners = {}
    /\ pricingData = PRICING_DATA
    /\ error = "none"
    /\ last = "none"
    /\ trace = <<>>
    /\ more = FALSE
    /\ runStart = Snapshot(rangeValue, isYearlyBilling, classList, viewCount, monthPrice)
    /\ runEven = TRUE
    /\ overwrote = FALSE

\* The document's DOMContentLoaded event, dispatched once.
DOMContentLoaded ==
    /\ listeners = {}
    /\ initializeComponent
    /\ overwrote' = (rangeValue' # rangeValue)
    /\ runStart' = Snapshot(rangeValue', isYearlyBilling', classList', viewCount', monthPrice')
    /\ runEven' = TRUE
    /\ UNCHANGED <<last, trace, more>>

\* The user moves the slider to position v: the browser stores the position and
\* dispatches 'input', which runs handleRangeChange if it is registered.
SliderInput(v) ==
    /\ rangeValue' = v
    /\ IF "input" \in listeners
       THEN /\ handleRangeChange(v)
            /\ Record(v)
       ELSE UNCHANGED <<isYearlyBilling, classList, viewCount, monthPrice,
                        pricingData, error, last, trace, more>>
    /\ runStart' = Snapshot(rangeValue', isYearlyBilling', classList', viewCount', monthPrice')
    /\ runEven' = TRUE
    /\ UNCHANGED <<listeners, overwrote>>

\* The user clicks the billing button: handleDiscountToggle runs if registered
\* (a click with no handler registered changes nothing).
ToggleClick ==
    /\ "click" \in listeners
    /\ handleDiscountToggle
    /\ Record("toggle")
    /\ runEven' = ~runEven
    /\ UNCHANGED <<rangeValue, listeners, runStart, overwrote>>

Init == InitOver(TierSlider)

Next ==
    \/ DOMContentLoaded
    \/ \E v \in TierSlider : SliderInput(v)
    \/ ToggleClick

\* The widget behind a slider limited to 1..5, as the page wires it.
Spec == Init /\ [][Next]_vars

InitWide == InitOver(WideSlider)

NextWide ==
    \/ DOMContentLoaded
    \/ \E v \in WideSlider : SliderInput(v)
    \/ ToggleClick

\* The widget behind a slider whose range exceeds the five tiers.
SpecWide == InitWide /\ [][NextWide]_vars

\* Startup has run: initializeComponent has registered its handlers.
Ready == listeners # {}

\* ------------------------------------------------------------------ claims
TierKeys == {NatToString(i) : i \in 1..5}

\* C1: once startup has run, after any sequence of slider events with values in
\* 1..5 and toggle clicks, the view-count text is the label of the tier the
\* slider selects and the price text is "$" followed by the tier's base price
\* times 0.75 when billing is yearly and times 1 when it is monthly.
C1_DisplayFollowsState ==
    Ready =>
        /\ rangeValue \in TierKeys
        /\ viewCount = PRICING_DATA[rangeValue].views
        /\ monthPrice = "$" \o NumberToString(
               IF isYearlyBilling THEN PRICING_DATA[rangeValue].price * 75
                                  ELSE PRICING_DATA[rangeValue].price * 100)

C1_Witness ==
    /\ Ready
    /\ Len(trace) >= 2
    /\ last = "toggle"
    /\ isYearlyBilling
    /\ rangeValue = "4"
    /\ monthPrice = "$18"

C3_InitialDisplay ==
    (Ready /\ last = "none") =>
        /\ rangeValue = "3"
        /\ isYearlyBilling = FALSE
        /\ viewCount = "100K"
        /\ monthPrice = "$16"

C3_Witness ==
    /\ Ready
    /\ last = "none"
    /\ trace = <<>>
    /\ rangeValue = "3"
    /\ monthPrice = "$16"

\* C4: in every reachable state the toggle carries the class 'active' if and
\* only if isYearlyBilling is true.
C4_MarkerIsFlag == ("active" \in classList) <=> isYearlyBilling

C4_Witness ==
    /\ Ready
    /\ last = "toggle"
    /\ Len(trace) >= 2
    /\ trace[1] = "toggle"
    /\ isYearlyBilling = FALSE
    /\ "active" \notin classList

\* C5: a handled slider event with value n in 1..5 makes n the selected tier and
\* leaves the billing flag and the marker alone; a toggle click flips the
\* billing flag and leaves the selected tier and the view-count text alone; no
\* step changes the tier table.
C5_Frame ==
    [][/\ (last' \in TierKeys =>
              /\ rangeValue' = last'
              /\ isYearlyBilling' = isYearlyBilling
              /\ classList' = classList)
       /\ (last' = "toggle" =>
              /\ isYearlyBilling' = ~isYearlyBilling
              /\ rangeValue' = rangeValue
              /\ viewCount' = viewCount)
       /\ pricingData' = pricingData]_vars

C5_Witness ==
    /\ ~more
    /\ trace = <<"toggle", "2", "toggle">>
    /\ rangeValue = "2"
    /\ isYearlyBilling = FALSE
    /\ pricingData = PRICING_DATA

\* C6: from the initial state, setTier(4) shows "500K" and "$24"; a following
\* toggleBilling() shows "$18" with the view count still "500K"; a following
\* setTier(2) shows "50K" and "$9".
C6_Scenario ==
    ~more =>
        /\ (trace = <<"4">> => viewCount = "500K" /\ monthPrice = "$24")
        /\ (trace = <<"4", "toggle">> => viewCount = "500K" /\ monthPrice = "$18")
        /\ (trace = <<"4", "toggle", "2">> => viewCount = "50K" /\ monthPrice = "$9")

C6_Witness ==
    /\ ~more
    /\ trace = <<"4", "toggle", "2">>
    /\ isYearlyBilling

\* C7: after an even number of consecutive toggle clicks the slider value, the
\* billing flag, the marker and both display texts are what they were before
\* the first of them.
C7_EvenTogglesIdentity ==
    (Ready /\ runEven) =>
        runStart = Snapshot(rangeValue, isYearlyBilling, classList, viewCount, monthPrice)

C7_Witness ==
    /\ Ready
    /\ last = "toggle"
    /\ runEven
    /\ runStart[2] = TRUE
    /\ isYearlyBilling
    /\ monthPrice = "$27"
\* C8: every state of the product (tier in 1..5) x (yearly or monthly) is
\* reachable from the initial state (3, monthly) and reaches every other one,
\* and no state is terminal: startup ends in (3, monthly), and in every state
\* after startup a slider event can move to each tier with the billing flag
\* kept, and a toggle click can flip the billing flag with the tier kept.
C8_ProductAutomaton ==
    Ready =>
        /\ rangeValue \in TierKeys
        /\ isYearlyBilling \in BOOLEAN
        /\ (last = "none" => rangeValue = "3" /\ ~isYearlyBilling)
        /\ \A n \in TierKeys :
               ENABLED (SliderInput(n) /\ rangeValue' = n
                                       /\ isYearlyBilling' = isYearlyBilling)
        /\ ENABLED (ToggleClick /\ isYearlyBilling' = ~isYearlyBilling
                                /\ rangeValue' = rangeValue)

C8_Witness ==
    /\ Ready
    /\ rangeValue = "1"
    /\ isYearlyBilling
    /\ more

\* C9: whenever tier 1 is selected the display shows "10K" with "$8" (monthly)
\* or "$6" (yearly); whenever tier 5 is selected it shows "1M" with "$36"
\* (monthly) or "$27" (yearly).
C9_Boundaries ==
    Ready =>
        /\ (rangeValue = "1" =>
               /\ viewCount = "10K"
               /\ monthPrice = IF isYearlyBilling THEN "$6" ELSE "$8")
        /\ (rangeValue = "5" =>
               /\ viewCount = "1M"
               /\ monthPrice = IF isYearlyBilling THEN "$27" ELSE "$36")

C9_Witness ==
    /\ Ready
    /\ rangeValue = "5"
    /\ last = "5"
    /\ isYearlyBilling
    /\ monthPrice = "$27"

\* C10: the tier table has exactly five entries, keyed by the contiguous ids
\* 1..5, and its price never decreases as the id increases.
C10_TableShape ==
    /\ DOMAIN pricingData = {NatToString(i) : i \in 1..5}
    /\ Cardinality(DOMAIN pricingData) = 5
    /\ \A i, j \in 1..5 :
           i < j => pricingData[NatToString(i)].price <= pricingData[NatToString(j)].price

C10_Witness ==
    /\ Ready
    /\ last = "5"
    /\ viewCount = pricingData["5"].views
    /\ pricingData["4"].price < pricingData["5"].price
\* C11: render is idempotent: a slider event that reports the value the slider
\* already has, handled with the billing flag unchanged, writes the same
\* view-count and price text again and changes no state variable.
C11_RenderIdempotent ==
    [][(last' \in TierKeys /\ last' = rangeValue /\ "input" \in listeners) =>
            UNCHANGED <<rangeValue, isYearlyBilling, classList, viewCount,
                        monthPrice, listeners, pricingData, error>>]_vars

C11_Witness ==
    /\ ~more
    /\ trace = <<"toggle", "4", "4">>
    /\ rangeValue = "4"
    /\ isYearlyBilling
    /\ viewCount = "500K"
    /\ monthPrice = "$18"
\* C12: while the slider value is outside 1..5, no handler raises an error or
\* writes either display text, so both keep what the last valid render wrote;
\* a toggle click in that situation still flips isYearlyBilling and the
\* 'active' marker with it, and the price text, left as it was, can show the
\* price of the other billing mode.
\* The next handled event with the slider back in 1..5 renders again, and the
\* price text then agrees with the billing flag.
C12_StaleDisplay ==
    [][/\ ("input" \in listeners /\ rangeValue' \notin TierKeys) =>
              /\ error' = "none"
              /\ UNCHANGED <<viewCount, monthPrice>>
              /\ (last' = "toggle" =>
                     /\ rangeValue' = rangeValue
                     /\ isYearlyBilling' = ~isYearlyBilling
                     /\ ("active" \in classList') <=> isYearlyBilling')
       /\ ("input" \in listeners /\ rangeValue' \in TierKeys) =>
              /\ viewCount' = PRICING_DATA[rangeValue'].views
              /\ monthPrice' = "$" \o NumberToString(
                     IF isYearlyBilling' THEN PRICING_DATA[rangeValue'].price * 75
                                         ELSE PRICING_DATA[rangeValue'].price * 100)]_vars

C12_Witness ==
    /\ ~more
    /\ trace = <<"4", "6", "toggle">>
    /\ rangeValue = "6"
    /\ isYearlyBilling
    /\ "active" \in classList
    /\ viewCount = "500K"
    /\ monthPrice = "$24"
    /\ error = "none"
\* A price text that is "$" and a whole number of dollars, and that number.
WholeDollar(text) == \E n \in 0..MaxDollars : text = "$" \o NatToString(n)

Dollars(text) == CHOOSE n \in 0..MaxDollars : text = "$" \o NatToString(n)

MonthlyDollars == {8, 12, 16, 24, 36}

YearlyDollars == {6, 9, 12, 18, 27}

\* C13: in every state after startup the price text is a whole-dollar amount
\* with no fraction; it is one of 8, 12, 16, 24, 36 when billing is monthly and
\* one of 6, 9, 12, 18, 27 when it is yearly, each of these amounts being one
\* slider event away; and a toggle click to yearly lowers the amount of the
\* selected tier strictly, as a toggle click back to monthly raises it.
C13_WholeDollars ==
    /\ [](Ready =>
            /\ WholeDollar(monthPrice)
            /\ Dollars(monthPrice) \in
                   (IF isYearlyBilling THEN YearlyDollars ELSE MonthlyDollars)
            /\ \A d \in (IF isYearlyBilling THEN YearlyDollars ELSE MonthlyDollars) :
                   \E v \in TierKeys :
                       ENABLED (SliderInput(v) /\ isYearlyBilling' = isYearlyBilling
                                  /\ monthPrice' = "$" \o NatToString(d)))
    /\ [][(last' = "toggle" /\ Ready) =>
              IF isYearlyBilling'
              THEN Dollars(monthPrice') < Dollars(monthPrice)
              ELSE Dollars(monthPrice') > Dollars(monthPrice)]_vars

C13_Witness ==
    /\ ~more
    /\ trace = <<"2", "toggle">>
    /\ isYearlyBilling
    /\ monthPrice = "$9"
    /\ WholeDollar(monthPrice)
    /\ Dollars(monthPrice) = 9
\* C14: startup is ordered: until initializeComponent has run no handler is
\* registered and no slider or toggle event has been handled, so the display
\* still holds the page's own texts; initializeComponent forces the slider to
\* its default 3 and renders that tier before it registers both handlers, so
\* the value the slider held before is overwritten and never displayed.
C14_StartupOrder ==
    /\ [](listeners = {} =>
            /\ last = "none" /\ trace = <<>> /\ ~more
            /\ isYearlyBilling = FALSE
            /\ viewCount \in MarkupViewTexts
            /\ monthPrice \in MarkupPriceTexts)
    /\ [][(listeners = {} /\ listeners' # {}) =>
              /\ listeners' = {"input", "click"}
              /\ rangeValue' = "3"
              /\ viewCount' = "100K"
              /\ monthPrice' = "$16"
              /\ last' = "none"]_vars

C14_Witness ==
    /\ Ready
    /\ overwrote
    /\ last = "none"
    /\ rangeValue = "3"
    /\ viewCount = "100K"
    /\ monthPrice = "$16"
====
